---- MODULE Spec2Model ----
(***************************************************************************)
(* A model of prefect_gcp/credentials.py: the GcpCredentials block, its    *)
(* pydantic validators, credential resolution, the access-token helper and *)
(* the three service-client factories.                                     *)
(*                                                                         *)
(* Python values are modelled as follows.                                  *)
(*   - None is the record None; an Optional value that is present is       *)
(*     Some(x) = [val |-> x].                                              *)
(*   - a str is a TLA+ string ("" is the empty, falsy string).             *)
(*   - a pathlib.Path is the sequence of its components; "~" as first      *)
(*     component is what Path.expanduser() replaces by the home directory. *)
(*   - a Dict[str, str] is a function from its keys; the empty dict is     *)
(*     the empty function.                                                 *)
(*   - an exception is [type, msg], msg the sequence of the pieces its     *)
(*     message is formatted from; NoError means nothing was raised.        *)
(***************************************************************************)
EXTENDS Naturals, Sequences, FiniteSets, TLC

VARIABLES
    installed,   \* the optional vendor packages whose import succeeded (lines 12-25)
    ambient,     \* what google.auth.default() finds in the environment
    self,        \* the GcpCredentials object, None before a successful construction
    given,       \* the keyword arguments of the last construction attempt
    raised,      \* the errors of the last construction attempt
    result,      \* the outcome of the last synchronous method call
    calls,       \* the get_access_token coroutines, by caller
    objs,        \* the credential objects the coroutines resolved
    nextObj,     \* the next credential object to be created
    epoch        \* the token endpoint's current token generation

vars == <<installed, ambient, self, given, raised, result, calls, objs, nextObj, epoch>>

-----------------------------------------------------------------------------
(* Bounds of the model *)

MaxCalls == 2

MaxEpoch == 1

-----------------------------------------------------------------------------
(* Python values *)

None == [isNone |-> TRUE]

Some(x) == [val |-> x]

EmptyDict == [k \in {} |-> ""]

\* bool(x) of an Optional[str]: None and "" are falsy
TruthyStr(o) == o # None /\ o.val # ""

\* bool(x) of an Optional[dict]: None and {} are falsy
TruthyDict(o) == o # None /\ DOMAIN o.val # {}

\* bool(x) of an Optional[Path]: a Path defines neither __bool__ nor __len__
TruthyPath(o) == o # None

NoError == [type |-> "none", msg |-> <<>>]

Error(t, m) == [type |-> t, msg |-> m]

-----------------------------------------------------------------------------
(* The environment: file system, ambient credentials, vendor packages *)

Home == <<"home", "user">>

KeyA == [client_email |-> "sa-a@iam", token_uri |-> "oauth2", project_id |-> "proj-a"]

KeyNoProject == [client_email |-> "sa-n@iam", token_uri |-> "oauth2"]

KeyMalformed == [project_id |-> "proj-m"]

KeyFile == [client_email |-> "sa-f@iam", token_uri |-> "oauth2", project_id |-> "proj-f"]

\* The file system the process sees: absolute path |-> entry
FileSystem ==
    (Home :> [type |-> "dir", content |-> EmptyDict])
    @@ ((Home \o <<"key.json">>) :> [type |-> "file", content |-> KeyFile])
    @@ ((Home \o <<"bad.json">>) :> [type |-> "file", content |-> KeyMalformed])

\* Path.expanduser(): a leading "~" becomes the home directory
Expanduser(p) == IF Len(p) > 0 /\ p[1] = "~" THEN Home \o Tail(p) ELSE p

\* Path.exists(): true of files and of directories
Exists(p) == p \in DOMAIN FileSystem

IsFile(p) == Exists(p) /\ FileSystem[p].type = "file"

CloudPlatformScope == "https://www.googleapis.com/auth/cloud-platform"

NoCred == [kind |-> "none"]

\* google.oauth2.service_account.Credentials built from key material
ServiceAccountCred(info, scopes, source) ==
    [kind |-> "service_account",
     account |-> info.client_email,
     hasProjectId |-> TRUE,
     project_id |-> IF "project_id" \in DOMAIN info THEN Some(info.project_id) ELSE None,
     scopes |-> scopes,
     source |-> source]

\* google.oauth2.credentials.Credentials of an interactive login: no project_id attribute
UserCred ==
    [kind |-> "authorized_user",
     account |-> "user@example",
     hasProjectId |-> FALSE,
     project_id |-> None,
     scopes |-> {},
     source |-> "default"]

KeyEnv == [client_email |-> "sa-e@iam", token_uri |-> "oauth2", project_id |-> "proj-e"]

\* What google.auth.default() can find: nothing, a service-account key named by
\* the environment, or the user credentials of `gcloud auth application-default login`.
\* The second component is the project the environment names, returned alongside.
AmbientValues ==
    { None,
      Some(<<ServiceAccountCred(KeyEnv, {}, "default"), Some("proj-cli")>>),
      Some(<<UserCred, Some("proj-cli")>>) }

Extras == {"cloud_storage", "bigquery", "secret_manager"}

-----------------------------------------------------------------------------
(* Construction: the pydantic (v1) validation pipeline and block_initialization *)

MsgOnlyOne == <<"Only one of service_account_info or service_account_file can be specified at once">>

MsgCannotInfer == <<"Unable to infer project with a project already set">>

MsgInvalidPath == <<"The provided path to the service account is invalid">>

FileInputs ==
    { None,
      Some(<<"~", "key.json">>),
      Some(<<"~", "bad.json">>),
      Some(Home),
      Some(<<"missing.json">>) }

InfoInputs == { None, Some(EmptyDict), Some(KeyA), Some(KeyNoProject), Some(KeyMalformed) }

ProjectInputs == { None, Some(""), Some("proj-x") }

\* The fields of the class with their declared defaults (lines 87-90)
Kwargs(file, info, project, infer) ==
    [service_account_file |-> file,
     service_account_info |-> info,
     project |-> project,
     infer_project |-> infer]

\* @validator("service_account_file"): [ok, value]; ok = FALSE when it raises ValueError
check_service_account_file(file) ==
    IF ~TruthyPath(file)
    THEN [ok |-> TRUE, value |-> file]
    ELSE LET service_account_file == Expanduser(file.val)
         IN  IF ~Exists(service_account_file)
             THEN [ok |-> FALSE, value |-> None]
             ELSE [ok |-> TRUE, value |-> Some(service_account_file)]

\* The validator, were it to test truthiness as the resolution order does
provide_one_service_account_source_truthy(values) ==
    TruthyDict(values.service_account_info) /\ TruthyPath(values.service_account_file)

\* @root_validator: TRUE when it raises ValueError(MsgOnlyOne)
provide_one_service_account_source(values) ==
    LET both_service_account ==
            /\ values.service_account_info # None
            /\ values.service_account_file # None
    IN  both_service_account

\* @root_validator: TRUE when it raises ValueError(MsgCannotInfer)
cannot_infer_project_with_specified_project(values) ==
    values.infer_project /\ TruthyStr(values.project)

\* pydantic's validate_model over the class: the field validator runs first; a field
\* whose validator raised is left out of `values` (values.get() then gives None);
\* both root validators run after the fields, whether or not a field failed, and
\* every error raised is collected.  [values, errors]
validate_model(kwargs) ==
    LET f == check_service_account_file(kwargs.service_account_file)
        values == [kwargs EXCEPT !.service_account_file = f.value]
    IN  [values |-> values,
         errors |-> (IF f.ok THEN {} ELSE {MsgInvalidPath})
                    \cup (IF provide_one_service_account_source(values)
                          THEN {MsgOnlyOne} ELSE {})
                    \cup (IF cannot_infer_project_with_specified_project(values)
                          THEN {MsgCannotInfer} ELSE {})]

-----------------------------------------------------------------------------
(* Credential resolution *)

\* Credentials.from_service_account_info: [raised, credentials]
from_service_account_info(info, scopes) ==
    IF {"client_email", "token_uri"} \subseteq DOMAIN info
    THEN [raised |-> NoError, credentials |-> ServiceAccountCred(info, scopes, "info")]
    ELSE [raised |-> Error("ValueError", <<"Service account info was not in the expected format">>),
          credentials |-> NoCred]

\* Credentials.from_service_account_file: [raised, credentials]
from_service_account_file(path, scopes) ==
    IF ~Exists(path)
    THEN [raised |-> Error("FileNotFoundError", <<>>), credentials |-> NoCred]
    ELSE IF ~IsFile(path)
    THEN [raised |-> Error("IsADirectoryError", <<>>), credentials |-> NoCred]
    ELSE LET r == from_service_account_info(FileSystem[path].content, scopes)
         IN  [r EXCEPT !.credentials =
                 IF r.raised = NoError THEN [@ EXCEPT !.source = "file"] ELSE @]

\* google.auth.default(): [raised, credentials, project]
google_auth_default(amb) ==
    IF amb = None
    THEN [raised |-> Error("DefaultCredentialsError", <<"Could not automatically determine credentials">>),
          credentials |-> NoCred, project |-> None]
    ELSE [raised |-> NoError, credentials |-> amb.val[1], project |-> amb.val[2]]

\* GcpCredentials.get_credentials_from_service_account.
\* consulted: the vendor entry points called, in order.
get_credentials_from_service_account(s, amb) ==
    IF TruthyDict(s.service_account_info)
    THEN LET r == from_service_account_info(s.service_account_info.val, {CloudPlatformScope})
         IN  [raised |-> r.raised, credentials |-> r.credentials, consulted |-> <<"info">>]
    ELSE IF TruthyPath(s.service_account_file)
    THEN LET r == from_service_account_file(s.service_account_file.val, {CloudPlatformScope})
         IN  [raised |-> r.raised, credentials |-> r.credentials, consulted |-> <<"file">>]
    ELSE LET r == google_auth_default(amb)
         IN  [raised |-> r.raised, credentials |-> r.credentials, consulted |-> <<"default">>]

\* block_initialization, were it to infer the project whatever infer_project says
block_initialization_always_infers(s, amb) ==
    LET r == get_credentials_from_service_account(s, amb)
    IN  IF r.raised # NoError
        THEN [raised |-> r.raised, self |-> s]
        ELSE IF ~r.credentials.hasProjectId
        THEN [raised |-> Error("AttributeError", <<"project_id">>), self |-> s]
        ELSE [raised |-> NoError,
              self |-> [s EXCEPT !.project = r.credentials.project_id]]

\* GcpCredentials.block_initialization: [raised, self]
block_initialization(s, amb) ==
    IF s.infer_project
    THEN LET r == get_credentials_from_service_account(s, amb)
         IN  IF r.raised # NoError
             THEN [raised |-> r.raised, self |-> s]
             ELSE IF ~r.credentials.hasProjectId
             THEN [raised |-> Error("AttributeError", <<"project_id">>), self |-> s]
             ELSE [raised |-> NoError,
                   self |-> [s EXCEPT !.project = r.credentials.project_id]]
    ELSE [raised |-> NoError, self |-> s]

-----------------------------------------------------------------------------
(* The service-client factories *)

NoClient == [service |-> "none"]

\* A vendor client, as the arguments its constructor was given
Client(service, credentials, project, location) ==
    [service |-> service, credentials |-> credentials,
     project |-> project, location |-> location]

\* The outcome of a method call: what it raised or returned and the vendor
\* entry points credential resolution called
Outcome(err, credentials, client, consulted) ==
    [raised |-> err, credentials |-> credentials, client |-> client,
     consulted |-> consulted]

\* The ImportError message of _raise_help_msg, an f-string over key (the
\* backquotes of the message are left out)
HelpMsg(key) ==
    <<"To use prefect_gcp.", key, ", install prefect-gcp with the '", key,
      "' extra: pip install 'prefect_gcp[", key, "]'">>

\* The decorator, were it to catch nothing
raise_help_msg_catches_nothing(key, outcome) == outcome

\* The decorator, were it to catch every exception (`except Exception`)
raise_help_msg_catches_all(key, outcome) ==
    IF outcome.raised # NoError
    THEN Outcome(Error("ImportError", HelpMsg(key)), NoCred, NoClient, outcome.consulted)
    ELSE outcome

\* _raise_help_msg(key)(func): a NameError out of func becomes an ImportError;
\* anything else func raises or returns passes through
raise_help_msg(key, outcome) ==
    IF outcome.raised.type = "NameError"
    THEN Outcome(Error("ImportError", HelpMsg(key)), NoCred, NoClient, outcome.consulted)
    ELSE outcome

\* `project or self.project` (lines 214, 275)
EffectiveProject(project, s) == IF TruthyStr(project) THEN project ELSE s.project

\* The body of get_cloud_storage_client (lines 211-216); the name StorageClient
\* is bound only if the import at line 23 succeeded
cloud_storage_func(s, project, amb, inst) ==
    LET r == get_credentials_from_service_account(s, amb)
    IN  IF r.raised # NoError
        THEN Outcome(r.raised, NoCred, NoClient, r.consulted)
        ELSE IF "cloud_storage" \notin inst
        THEN Outcome(Error("NameError", <<"StorageClient">>), NoCred, NoClient, r.consulted)
        ELSE Outcome(NoError, r.credentials,
                     Client("storage", r.credentials, EffectiveProject(project, s), None),
                     r.consulted)

\* The body of get_bigquery_client (lines 272-279)
bigquery_func(s, project, location, amb, inst) ==
    LET r == get_credentials_from_service_account(s, amb)
    IN  IF r.raised # NoError
        THEN Outcome(r.raised, NoCred, NoClient, r.consulted)
        ELSE IF "bigquery" \notin inst
        THEN Outcome(Error("NameError", <<"BigQueryClient">>), NoCred, NoClient, r.consulted)
        ELSE Outcome(NoError, r.credentials,
                     Client("bigquery", r.credentials, EffectiveProject(project, s), location),
                     r.consulted)

\* The body of get_secret_manager_client (lines 327-331): no project is passed
secret_manager_func(s, amb, inst) ==
    LET r == get_credentials_from_service_account(s, amb)
    IN  IF r.raised # NoError
        THEN Outcome(r.raised, NoCred, NoClient, r.consulted)
        ELSE IF "secret_manager" \notin inst
        THEN Outcome(Error("NameError", <<"SecretManagerServiceClient">>), NoCred, NoClient,
                     r.consulted)
        ELSE Outcome(NoError, r.credentials,
                     Client("secretmanager", r.credentials, None, None), r.consulted)

get_cloud_storage_client(s, project, amb, inst) ==
    raise_help_msg("cloud_storage", cloud_storage_func(s, project, amb, inst))

get_bigquery_client(s, project, location, amb, inst) ==
    raise_help_msg("bigquery", bigquery_func(s, project, location, amb, inst))

get_secret_manager_client(s, amb, inst) ==
    raise_help_msg("secret_manager", secret_manager_func(s, amb, inst))

-----------------------------------------------------------------------------
(* get_access_token: a coroutine that resolves a credential object, refreshes it
   on a worker thread, and returns its token once the thread is done *)

CallIds == 1 .. MaxCalls

NoToken == 0

NoObj == [credentials |-> NoCred, token |-> NoToken, refreshedBy |-> <<>>]

IdleCall ==
    [pc |-> "idle", obj |-> 0, own |-> NoToken, token |-> NoToken,
     raised |-> NoError, consulted |-> <<>>, began |-> 0, ended |-> 0]

\* The access token the endpoint issues in token generation e
Mint(e) == e + 1

\* Resolution, were it to hand every call one cached credential object
ResolvedObject_cached(n) == 1

\* The object get_credentials_from_service_account returns to a call: each of
\* from_service_account_info, from_service_account_file and google.auth.default
\* builds a new object (n is the next unused object)
ResolvedObject(n) == n

\* The refresh, were it dispatched and not awaited
AwaitDone_not_awaited(call) == call.pc \in {"refreshing", "refreshed"}

\* `await run_sync_in_worker_thread(...)`: the coroutine goes on once the worker
\* thread has run credentials.refresh
AwaitDone(call) == call.pc = "refreshed"

-----------------------------------------------------------------------------
(* The state machine *)

NoRaise == [type |-> "none", msgs |-> {}]

NoResult == [op |-> "none"]

Result(op, project, location, outcome) ==
    [op |-> op, project |-> project, location |-> location, out |-> outcome]

LocationInputs == { None, Some("EU") }

Init ==
    /\ installed \in SUBSET Extras
    /\ ambient \in AmbientValues
    /\ self = None
    /\ given = None
    /\ raised = NoRaise
    /\ result = NoResult
    /\ calls = [c \in CallIds |-> IdleCall]
    /\ objs = [i \in CallIds |-> NoObj]
    /\ nextObj = 1
    /\ epoch = 0

\* GcpCredentials(**kwargs): validation, then Block.__init__ calls
\* block_initialization; any error leaves no object
Construct(file, info, project, infer) ==
    /\ self = None
    /\ LET kwargs == Kwargs(file, info, project, infer)
           v == validate_model(kwargs)
           b == block_initialization(v.values, ambient)
       IN  /\ given' = Some(kwargs)
           /\ IF v.errors # {}
              THEN /\ raised' = [type |-> "ValidationError", msgs |-> v.errors]
                   /\ self' = None
              ELSE IF b.raised # NoError
              THEN /\ raised' = [type |-> b.raised.type, msgs |-> {b.raised.msg}]
                   /\ self' = None
              ELSE /\ raised' = NoRaise
                   /\ self' = Some(b.self)
    /\ UNCHANGED <<installed, ambient, result, calls, objs, nextObj, epoch>>

GetCredentials ==
    /\ self # None
    /\ LET r == get_credentials_from_service_account(self.val, ambient)
       IN  result' = Result("get_credentials_from_service_account", None, None,
                            Outcome(r.raised, r.credentials, NoClient, r.consulted))
    /\ UNCHANGED <<installed, ambient, self, given, raised, calls, objs, nextObj, epoch>>

GetCloudStorageClient(project) ==
    /\ self # None
    /\ result' = Result("get_cloud_storage_client", project, None,
                        get_cloud_storage_client(self.val, project, ambient, installed))
    /\ UNCHANGED <<installed, ambient, self, given, raised, calls, objs, nextObj, epoch>>

GetBigqueryClient(project, location) ==
    /\ self # None
    /\ result' = Result("get_bigquery_client", project, location,
                        get_bigquery_client(self.val, project, location, ambient, installed))
    /\ UNCHANGED <<installed, ambient, self, given, raised, calls, objs, nextObj, epoch>>

GetSecretManagerClient ==
    /\ self # None
    /\ result' = Result("get_secret_manager_client", None, None,
                        get_secret_manager_client(self.val, ambient, installed))
    /\ UNCHANGED <<installed, ambient, self, given, raised, calls, objs, nextObj, epoch>>

\* get_access_token up to the await (lines 154-156): the Request and the
\* credentials are made on the caller's thread, the refresh is handed to a worker
StartCall(c) ==
    /\ self # None
    /\ calls[c].pc = "idle"
    /\ LET r == get_credentials_from_service_account(self.val, ambient)
           id == ResolvedObject(nextObj)
       IN  IF r.raised # NoError
           THEN /\ calls' = [calls EXCEPT ![c] =
                       [@ EXCEPT !.pc = "raised", !.raised = r.raised,
                                 !.consulted = r.consulted,
                                 !.began = epoch, !.ended = epoch]]
                /\ UNCHANGED <<objs, nextObj>>
           ELSE /\ calls' = [calls EXCEPT ![c] =
                       [@ EXCEPT !.pc = "refreshing", !.obj = id,
                                 !.consulted = r.consulted, !.began = epoch]]
                /\ objs' = [objs EXCEPT ![id] =
                       IF @ = NoObj THEN [NoObj EXCEPT !.credentials = r.credentials] ELSE @]
                /\ nextObj' = nextObj + 1
    /\ UNCHANGED <<installed, ambient, self, given, raised, result, epoch>>

\* The worker thread runs credentials.refresh(request): the endpoint issues a
\* token, which refresh stores in the credential object
RefreshOk(c) ==
    /\ calls[c].pc = "refreshing"
    /\ objs' = [objs EXCEPT ![calls[c].obj] =
                   [@ EXCEPT !.token = Mint(epoch), !.refreshedBy = Append(@, c)]]
    /\ calls' = [calls EXCEPT ![c] = [@ EXCEPT !.pc = "refreshed", !.own = Mint(epoch)]]
    /\ UNCHANGED <<installed, ambient, self, given, raised, result, nextObj, epoch>>

\* The endpoint rejects the refresh: RefreshError is raised in the worker thread
\* and re-raised by the await
RefreshFail(c) ==
    /\ calls[c].pc = "refreshing"
    /\ calls' = [calls EXCEPT ![c] =
                   [@ EXCEPT !.pc = "raised",
                             !.raised = Error("RefreshError", <<"refresh rejected">>),
                             !.ended = epoch]]
    /\ UNCHANGED <<installed, ambient, self, given, raised, result, objs, nextObj, epoch>>

\* `return credentials.token` (line 157)
Return(c) ==
    /\ calls[c].pc \in {"refreshing", "refreshed"}
    /\ AwaitDone(calls[c])
    /\ calls' = [calls EXCEPT ![c] =
                   [@ EXCEPT !.pc = "returned", !.token = objs[calls[c].obj].token,
                             !.ended = epoch]]
    /\ UNCHANGED <<installed, ambient, self, given, raised, result, objs, nextObj, epoch>>

\* The tokens issued so far expire: the endpoint moves to its next token
Expire ==
    /\ epoch < MaxEpoch
    /\ epoch' = epoch + 1
    /\ UNCHANGED <<installed, ambient, self, given, raised, result, calls, objs, nextObj>>

\* One caller at a time: construction, credential resolution, the client
\* factories and one get_access_token call, in any order
Next ==
    \/ \E file \in FileInputs, info \in InfoInputs, project \in ProjectInputs,
          infer \in BOOLEAN : Construct(file, info, project, infer)
    \/ GetCredentials
    \/ \E project \in ProjectInputs : GetCloudStorageClient(project)
    \/ \E project \in ProjectInputs, location \in LocationInputs :
          GetBigqueryClient(project, location)
    \/ GetSecretManagerClient
    \/ StartCall(1)
    \/ RefreshOk(1)
    \/ RefreshFail(1)
    \/ Return(1)

Spec == Init /\ [][Next]_vars

\* Concurrent callers of get_access_token on one object, a client factory called
\* in between, and the endpoint's tokens expiring
TokenFileInputs == { None, Some(<<"~", "key.json">>) }

TokenInfoInputs == { None, Some(KeyA) }

InitToken == Init /\ installed = Extras

NextToken ==
    \/ \E file \in TokenFileInputs, info \in TokenInfoInputs :
          Construct(file, info, None, FALSE)
    \/ \E c \in CallIds : StartCall(c)
    \/ \E c \in CallIds : RefreshOk(c)
    \/ \E c \in CallIds : RefreshFail(c)
    \/ \E c \in CallIds : Return(c)
    \/ GetSecretManagerClient
    \/ Expire

SpecToken == InitToken /\ [][NextToken]_vars

-----------------------------------------------------------------------------
(* Properties: construction *)

Constructed == self # None

Attempted == given # None

GivenFile == given.val.service_account_file

GivenInfo == given.val.service_account_info

GivenBothSources == Attempted /\ GivenFile # None /\ GivenInfo # None

\* C3 as stated: whenever both service_account_file and service_account_info are
\* given, construction fails with the only-one-source (Configuration Conflict)
\* error and yields no object; a constructed object never has both set.
C3_Original ==
    /\ GivenBothSources =>
          /\ self = None
          /\ MsgOnlyOne \in raised.msgs
    /\ Constructed =>
          ~(self.val.service_account_file # None /\ self.val.service_account_info # None)

\* C3 amended: whenever both are given, construction fails with a validation
\* error and yields no object; the error is the only-one-source (Configuration
\* Conflict) error exactly when the given path exists after home expansion, and
\* the invalid-path (Configuration Invalid) error alone when it does not;
\* a constructed object never has both set.
C3_BothSourcesRejected ==
    /\ GivenBothSources =>
          /\ self = None
          /\ raised.type = "ValidationError"
          /\ (MsgOnlyOne \in raised.msgs) <=> Exists(Expanduser(GivenFile.val))
          /\ (MsgInvalidPath \in raised.msgs) <=> ~Exists(Expanduser(GivenFile.val))
    /\ Constructed =>
          ~(self.val.service_account_file # None /\ self.val.service_account_info # None)

C3_Witness ==
    /\ GivenBothSources
    /\ GivenInfo = Some(EmptyDict)
    /\ Exists(Expanduser(GivenFile.val))
    /\ self = None
    /\ MsgOnlyOne \in raised.msgs

\* C4 as stated: whenever infer_project is true and project is given as any
\* string, the empty string included, construction fails with the
\* cannot-infer (Configuration Conflict) error and yields no object.
C4_Original ==
    (Attempted /\ given.val.infer_project /\ given.val.project # None) =>
        /\ self = None
        /\ MsgCannotInfer \in raised.msgs

\* C5 as stated: when service_account_file is given, construction succeeds only
\* if the expanded path is an existing file (a missing path and a directory both
\* fail with the invalid-path error), and the stored path is the expanded one.
C5_Original ==
    (Attempted /\ GivenFile # None) =>
        LET expanded == Expanduser(GivenFile.val)
        IN  /\ Constructed =>
                  /\ IsFile(expanded)
                  /\ self.val.service_account_file = Some(expanded)
            /\ ~IsFile(expanded) =>
                  /\ self = None
                  /\ MsgInvalidPath \in raised.msgs

-----------------------------------------------------------------------------
(* Properties: credential resolution and the client factories *)

Factories == {"get_cloud_storage_client", "get_bigquery_client", "get_secret_manager_client"}

\* The extra each factory's decorator is given (lines 159, 218, 281)
ExtraOf(op) ==
    CASE op = "get_cloud_storage_client" -> "cloud_storage"
      [] op = "get_bigquery_client" -> "bigquery"
      [] op = "get_secret_manager_client" -> "secret_manager"

Resolved == result.op = "get_credentials_from_service_account"

\* C1 as stated: resolution is first-match-wins on every constructed object.
\* If service_account_info is set (not None), only the inline info is consulted
\* and the credentials are built from it; else if service_account_file is set,
\* only the file is consulted; only when neither is set is the ambient default
\* consulted, and its credentials are returned without the project that came
\* with them. Both service-account branches request exactly the cloud-platform
\* scope.
C1_Original ==
    (Constructed /\ Resolved) =>
        LET s == self.val
            o == result.out
        IN  /\ s.service_account_info # None =>
                  /\ o.consulted = <<"info">>
                  /\ o.raised = NoError =>
                        /\ o.credentials.source = "info"
                        /\ o.credentials.scopes = {CloudPlatformScope}
            /\ (s.service_account_info = None /\ s.service_account_file # None) =>
                  /\ o.consulted = <<"file">>
                  /\ o.raised = NoError =>
                        /\ o.credentials.source = "file"
                        /\ o.credentials.scopes = {CloudPlatformScope}
            /\ (s.service_account_info = None /\ s.service_account_file = None) =>
                  /\ o.consulted = <<"default">>
                  /\ o.raised = NoError => o.credentials = ambient.val[1]

FactoryCalled == result.op \in Factories

PackageAbsent == FactoryCalled /\ ExtraOf(result.op) \notin installed

\* C2 as stated: on every object, a factory called while its vendor package is
\* absent raises the ImportError whose message names that factory's extra, and
\* returns no client.
C2_Original ==
    (Constructed /\ PackageAbsent) =>
        /\ result.out.raised = Error("ImportError", HelpMsg(ExtraOf(result.op)))
        /\ result.out.client = NoClient

\* C2 amended: a factory called while its vendor package is absent never returns
\* a client; it raises the ImportError whose message names that factory's extra
\* whenever credential resolution succeeds, and the error of credential
\* resolution, which runs first, whenever resolution fails.
C2_MissingPackage ==
    (Constructed /\ PackageAbsent) =>
        LET r == get_credentials_from_service_account(self.val, ambient)
        IN  /\ result.out.client = NoClient
            /\ r.raised = NoError =>
                  result.out.raised = Error("ImportError", HelpMsg(ExtraOf(result.op)))
            /\ r.raised # NoError => result.out.raised = r.raised

C2_Witness ==
    /\ Constructed
    /\ result.op = "get_bigquery_client"
    /\ installed = {"cloud_storage", "secret_manager"}
    /\ result.out.raised.type = "ImportError"
    /\ result.out.raised.msg[2] = "bigquery"

\* C6 as stated: get_cloud_storage_client and get_bigquery_client pass the
\* project argument to the vendor client whenever one is supplied (any string,
\* the empty string included) and the object's project only when none is
\* supplied; get_secret_manager_client passes no project.
C6_Original ==
    (Constructed /\ FactoryCalled /\ result.out.client # NoClient) =>
        IF result.op = "get_secret_manager_client"
        THEN result.out.client.project = None
        ELSE result.out.client.project =
                 (IF result.project # None THEN result.project ELSE self.val.project)

-----------------------------------------------------------------------------
(* Properties: the life of the object, and errors *)

\* The fields of a constructed object are those given, the path expanded, and
\* project is the resolved credentials' project_id exactly when infer_project
\* is true.
InitializedAsGiven ==
    Constructed =>
        LET g == given.val
            s == self.val
        IN  /\ s.service_account_info = g.service_account_info
            /\ s.infer_project = g.infer_project
            /\ s.service_account_file =
                   (IF g.service_account_file = None THEN None
                    ELSE Some(Expanduser(g.service_account_file.val)))
            /\ ~g.infer_project => s.project = g.project
            /\ g.infer_project =>
                  LET r == get_credentials_from_service_account(s, ambient)
                  IN  /\ r.raised = NoError
                      /\ s.project = r.credentials.project_id

\* C9: initialization writes project only when infer_project is true, and then
\* to the project_id of the credentials the resolution order yields; otherwise
\* project stays as given. Once constructed, no operation changes any field.
C9_Lifecycle == []InitializedAsGiven /\ [][Constructed => self' = self]_vars

C9_Witness ==
    /\ Constructed
    /\ given.val.infer_project
    /\ given.val.project = Some("")
    /\ self.val.service_account_info = None
    /\ self.val.service_account_file = None
    /\ self.val.project = Some("proj-e")
    /\ result.op = "get_cloud_storage_client"
    /\ calls[1].pc = "returned"

NoSource ==
    /\ self.val.service_account_file = None
    /\ self.val.service_account_info = None
    /\ ambient = None

\* C10: with neither file nor info and no ambient default, resolution raises
\* DefaultCredentialsError (Authentication Unavailable) after one attempt. In
\* every operation that resolves credentials, a resolution error is raised by
\* that call unchanged, nothing is returned, and resolution is attempted once;
\* a rejected refresh is raised by get_access_token as RefreshError, with no
\* further refresh and no token returned.
C10_ErrorsPropagate ==
    Constructed =>
        LET r == get_credentials_from_service_account(self.val, ambient)
        IN  /\ result.op # "none" =>
                  /\ Len(result.out.consulted) = 1
                  /\ NoSource => result.out.raised.type = "DefaultCredentialsError"
                  /\ r.raised # NoError =>
                        /\ result.out.raised = r.raised
                        /\ result.out.client = NoClient
                        /\ result.out.credentials = NoCred
            /\ \A c \in CallIds :
                  calls[c].pc # "idle" =>
                      /\ Len(calls[c].consulted) = 1
                      /\ NoSource => calls[c].raised.type = "DefaultCredentialsError"
                      /\ r.raised # NoError =>
                            /\ calls[c].pc = "raised"
                            /\ calls[c].raised = r.raised
                            /\ calls[c].obj = 0
                      /\ (r.raised = NoError /\ calls[c].pc = "raised") =>
                            /\ calls[c].raised.type = "RefreshError"
                            /\ objs[calls[c].obj].refreshedBy = <<>>
                      /\ calls[c].pc = "raised" => calls[c].token = NoToken
                      /\ calls[c].pc = "returned" => calls[c].raised = NoError

C10_Witness ==
    /\ Constructed
    /\ NoSource
    /\ result.op = "get_secret_manager_client"
    /\ "secret_manager" \notin installed
    /\ result.out.raised.type = "DefaultCredentialsError"
    /\ calls[1].pc = "raised"

-----------------------------------------------------------------------------
(* Properties: get_access_token *)

Returned(c) == calls[c].pc = "returned"

\* C7: a call that returns has resolved its credentials once and anew, its
\* credential object was refreshed exactly once, by this call, before the
\* return, and the token returned is the one that refresh produced. Two calls,
\* the second begun after the first returned and after the tokens expired in
\* between, return different tokens.
C7_FreshToken ==
    /\ \A c \in CallIds :
          Returned(c) =>
              /\ Len(calls[c].consulted) = 1
              /\ objs[calls[c].obj].refreshedBy = <<c>>
              /\ calls[c].own # NoToken
              /\ calls[c].token = calls[c].own
    /\ \A c, d \in CallIds :
          (Returned(c) /\ Returned(d) /\ calls[c].ended < calls[d].began) =>
              /\ calls[c].obj # calls[d].obj
              /\ calls[c].token # calls[d].token

C7_Witness ==
    /\ Returned(1)
    /\ Returned(2)
    /\ calls[1].ended < calls[2].began
    /\ calls[1].token = Mint(0)
    /\ calls[2].token = Mint(1)

\* C8: under any interleaving, no two calls hold the same credential object, an
\* object is refreshed only by the call that resolved it, the token a call's
\* refresh produced is still the object's token when the call resumes, and a
\* call's next step never waits on another call.
C8_NoSharedState ==
    /\ \A c, d \in CallIds :
          (c # d /\ calls[c].obj # 0 /\ calls[d].obj # 0) => calls[c].obj # calls[d].obj
    /\ \A c \in CallIds :
          calls[c].obj # 0 =>
              \A i \in DOMAIN objs[calls[c].obj].refreshedBy :
                  objs[calls[c].obj].refreshedBy[i] = c
    /\ \A c \in CallIds :
          calls[c].pc = "refreshed" => objs[calls[c].obj].token = calls[c].own
    /\ \A c \in CallIds :
          /\ (Constructed /\ calls[c].pc = "idle") => ENABLED StartCall(c)
          /\ calls[c].pc = "refreshing" => ENABLED RefreshOk(c)
          /\ calls[c].pc = "refreshed" => ENABLED Return(c)

C8_Witness ==
    /\ calls[1].pc = "refreshed"
    /\ calls[2].pc = "refreshed"
    /\ calls[1].own # calls[2].own
    /\ result.op = "get_secret_manager_client"

====
